---- MODULE Spec2Model ----
(***************************************************************************)
(* SpringRank_tools.py: the SpringRank linear systems (csr_SpringRank,     *)
(* SpringRank, SpringRank_groups) and the planted-network samplers.        *)
(*                                                                         *)
(* Matrices are tuples of rows (tuples), 1-indexed: node i of the source   *)
(* is index i+1 here.  A Python dict is a record [keys, val]: the keys in  *)
(* insertion order and the value of each key.  Real numbers are integers;  *)
(* a solver result is a numerator vector over a common denominator.        *)
(***************************************************************************)
EXTENDS Integers, Sequences, FiniteSets, TLC

\* ---------------------------------------------------------------- bounds
MaxN == 2        \* number of nodes N ranges over 1..MaxN
MaxX == 1        \* solution numerators range over -MaxX..MaxX
MaxQ == 2        \* solution denominators range over 1..MaxQ
MaxAlpha == 1    \* SpringRank's alpha ranges over 0..MaxAlpha
MaxDraw == 1     \* a Poisson draw ranges over 0..MaxDraw

Weights == {0, 1}          \* edge weights A[i,j]
FailInfos == {0 - 1, 1}    \* bicgstab's info when it did not converge
IterateVals == {0, 1}      \* entries of a non-converged iterate

\* ----------------------------------------------------------- numpy/scipy
RECURSIVE SumSeq(_)
SumSeq(s) == IF s = <<>> THEN 0 ELSE s[1] + SumSeq(Tail(s))

Rows(M) == Len(M)
Cols(M) == IF M = <<>> THEN 0 ELSE Len(M[1])

Eye(n) == [i \in 1..n |-> [j \in 1..n |-> IF i = j THEN 1 ELSE 0]]
Diag(v) == [i \in 1..Len(v) |-> [j \in 1..Len(v) |-> IF i = j THEN v[i] ELSE 0]]
Transpose(M) == [j \in 1..Cols(M) |-> [i \in 1..Rows(M) |-> M[i][j]]]
MatAdd(X, Y) == [i \in 1..Rows(X) |-> [j \in 1..Cols(X) |-> X[i][j] + Y[i][j]]]
MatSub(X, Y) == [i \in 1..Rows(X) |-> [j \in 1..Cols(X) |-> X[i][j] - Y[i][j]]]
Scale(c, X) == [i \in 1..Rows(X) |-> [j \in 1..Cols(X) |-> c * X[i][j]]]
Dot(u, v) == SumSeq([k \in 1..Len(u) |-> u[k] * v[k]])
MatVec(X, v) == [i \in 1..Rows(X) |-> Dot(X[i], v)]
MatMul(X, Y) ==
    [i \in 1..Rows(X) |-> [j \in 1..Cols(Y) |->
        SumSeq([k \in 1..Rows(Y) |-> X[i][k] * Y[k][j]])]]
VecAdd(u, v) == [i \in 1..Len(u) |-> u[i] + v[i]]
VecSub(u, v) == [i \in 1..Len(u) |-> u[i] - v[i]]
VecScale(c, v) == [i \in 1..Len(v) |-> c * v[i]]
HStack(X, Y) == [i \in 1..Rows(X) |-> X[i] \o Y[i]]
VStack(X, Y) == X \o Y
\* A.sum(axis=0): column sums; A.sum(axis=1): row sums
SumAxis0(M) == [j \in 1..Cols(M) |-> SumSeq([i \in 1..Rows(M) |-> M[i][j]])]
SumAxis1(M) == [i \in 1..Rows(M) |-> SumSeq(M[i])]
\* sparse resize to (n, n): keeps the entries, the new ones are zero
Resize(M, n) ==
    [i \in 1..n |-> [j \in 1..n |->
        IF i <= Rows(M) /\ j <= Cols(M) THEN M[i][j] ELSE 0]]
SetEntry(M, r, c, v) == [M EXCEPT ![r][c] = v]

Square(n) == [1..n -> [1..n -> Weights]]
Adjacency == UNION {Square(n) : n \in 1..MaxN}

\* ------------------------------------------------------------- the state
VARIABLES
    pc,         \* position of the call being modelled
    A,          \* the adjacency matrix argument
    alpha,      \* SpringRank's alpha argument
    operator,   \* the matrix handed to the solver
    rhs,        \* the right-hand side handed to the solver
    x,          \* solver output [0]: [num, den], the vector num/den
    info,       \* solver output [1]
    ret,        \* what the call returns
    err,        \* the exception that ended the call
    calls,      \* the solver routines invoked so far, in order
    G,          \* SpringRank_groups: dict of group assignment matrices
    reg_coeff,  \* SpringRank_groups: dict of regularization coefficients
    solver,     \* SpringRank_groups: the solver argument
    args,       \* samplers: the arguments of the call
    sample,     \* samplers: the generated ranks (and groups, scores)
    Z,          \* samplers: the sum of the scaled energies
    net,        \* samplers: the network built so far
    draws       \* samplers: the number of random draws made so far

otherVars == <<G, reg_coeff, solver, args, sample, Z, net, draws>>
vars == <<pc, A, alpha, operator, rhs, x, info, ret, err, calls, G, reg_coeff, solver,
          args, sample, Z, net, draws>>

None == "None"

\* ------------------------------------------------ csr_SpringRank, SpringRank
k_in(M) == SumAxis0(M)
k_out(M) == SumAxis1(M)

\* faulty variant: the degree diagonal built from k_out alone
LaplacianOutOnly(M) ==
    MatSub(MatSub(Diag(VecAdd(k_out(M), k_out(M))), M), Transpose(M))

\* lines 28-30: spdiags(k_out+k_in,0,N,N) - A - A.transpose()
Laplacian(M) ==
    MatSub(MatSub(Diag(VecAdd(k_out(M), k_in(M))), M), Transpose(M))

\* lines 35-37: resize to (N+1,N+1), operator[N,0] = 1, operator[0,N] = 1
Augment(L) ==
    LET N == Rows(L)
    IN  SetEntry(SetEntry(Resize(L, N + 1), N + 1, 1, 1), 1, N + 1, 1)

\* line 40: np.append(k_out - k_in, [0])
LagrangeRhs(M) == Append(VecSub(k_out(M), k_in(M)), 0)

\* line 77: alpha*np.eye(N) + D1 - C
L2Operator(M, a) ==
    MatSub(MatAdd(Scale(a, Eye(Rows(M))), Diag(VecAdd(k_out(M), k_in(M)))),
           MatAdd(M, Transpose(M)))

\* lines 75-76: d2 = k_out - k_in; B = alpha + d2 (alpha is broadcast)
L2Rhs(M, a) ==
    LET d2 == VecSub(k_out(M), k_in(M))
    IN  [i \in 1..Len(d2) |-> a + d2[i]]

Box(n) == [1..n -> (0 - MaxX)..MaxX]
Iterates(n) == [1..n -> IterateVals]

\* bicgstab(K, b) returns (x, info): info = 0 when x meets the residual
\* tolerance (here: solves the system exactly), otherwise the last iterate.
Solves(K, v, q, b) == \A i \in 1..Rows(K) : Dot(K[i], v) = q * b[i]
BicgstabOutcomes(K, b) ==
    {[x |-> [num |-> c[1], den |-> c[2]], info |-> 0] :
        c \in {c \in Box(Cols(K)) \X (1..MaxQ) : Solves(K, c[1], c[2], b)}}
    \cup
    {[x |-> [num |-> v, den |-> 1], info |-> f] :
        <<v, f>> \in Iterates(Cols(K)) \X FailInfos}

InitRank ==
    /\ pc = "call"
    /\ A \in Adjacency
    /\ alpha \in 0..MaxAlpha
    /\ operator = None /\ rhs = None /\ x = None /\ info = None /\ ret = None
    /\ err = None /\ calls = <<>>
    /\ G = None /\ reg_coeff = None /\ solver = None
    /\ args = None /\ sample = None /\ Z = None /\ net = None /\ draws = 0

\* SpringRank line 65-66 -> csr_SpringRank lines 23-40
BuildLagrange ==
    /\ pc = "call" /\ alpha = 0
    /\ operator' = Augment(Laplacian(A))
    /\ rhs' = LagrangeRhs(A)
    /\ pc' = "built"
    /\ UNCHANGED <<A, alpha, x, info, ret, err, calls, otherVars>>

\* SpringRank lines 68-78
BuildL2 ==
    /\ pc = "call" /\ alpha # 0
    /\ operator' = L2Operator(A, alpha)
    /\ rhs' = L2Rhs(A, alpha)
    /\ pc' = "built"
    /\ UNCHANGED <<A, alpha, x, info, ret, err, calls, otherVars>>

\* lines 43-46 and 79: bicgstab(operator, rhs)
RankSolve ==
    /\ pc = "built"
    /\ \E o \in BicgstabOutcomes(operator, rhs) :
        /\ x' = o.x
        /\ info' = o.info
    /\ calls' = Append(calls, "bicgstab")
    /\ pc' = "solved"
    /\ UNCHANGED <<A, alpha, operator, rhs, ret, err, otherVars>>

\* what reaches the caller: line 48 (ranks[:-1]) and line 81; the [0] of
\* lines 46 and 79 keeps the vector only
RankResult(a, sol) ==
    IF a = 0
    THEN [ranks |-> [num |-> SubSeq(sol.num, 1, Len(sol.num) - 1), den |-> sol.den]]
    ELSE [ranks |-> sol]

RankReturn ==
    /\ pc = "solved"
    /\ ret' = RankResult(alpha, x)
    /\ pc' = "done"
    /\ UNCHANGED <<A, alpha, operator, rhs, x, info, err, calls, otherVars>>

NextRank == BuildLagrange \/ BuildL2 \/ RankSolve \/ RankReturn

SpecRank == InitRank /\ [][NextRank]_vars

\* ------------------------------------------------------ SpringRank_groups
Individual == "individual"
GroupTypes == {"a", "b"}
GroupCounts == {1, 2}       \* M_t, the number of groups of a type
Solvers == {"spsolve", "bicgstab", "lsqr", "cg"}

Range(s) == {s[i] : i \in 1..Len(s)}
\* the insertion orders a dict with keys among S can have
KeyOrders(S) ==
    {s \in UNION {[1..n -> S] : n \in 0..Cardinality(S)} :
        \A i \in 1..Len(s) : \A j \in 1..Len(s) : s[i] = s[j] => i = j}

\* an N x M indicator matrix: node i belongs to one group of the type
Membership(N, M, shift) ==
    [i \in 1..N |-> [g \in 1..M |-> IF g = ((i - 1 + shift) % M) + 1 THEN 1 ELSE 0]]
ShiftOf(t) == IF t = "a" THEN 0 ELSE 1
GroupDicts(N) ==
    {[keys |-> ks, val |-> [t \in Range(ks) |-> Membership(N, m[t], ShiftOf(t))]] :
        <<ks, m>> \in KeyOrders(GroupTypes) \X [GroupTypes -> GroupCounts]}
RegOf(t) == IF t = Individual THEN 1 ELSE IF t = "a" THEN 2 ELSE 3
RegDicts ==
    {[keys |-> ks, val |-> [t \in Range(ks) |-> RegOf(t)]] :
        ks \in KeyOrders(GroupTypes \cup {Individual})}
LoopFree(n) == {M \in Square(n) : \A i \in 1..n : M[i][i] = 0}

\* lines 120-122: blocks[group_type] = L @ G_i
Blocks(L, g) == [t \in Range(g.keys) |-> MatMul(L, g.val[t])]

\* lines 125-126: for group_type in G: K = hstack([K, blocks[group_type]])
RECURSIVE HStackBlocks(_, _, _)
HStackBlocks(K, keys, blocks) ==
    IF keys = <<>> THEN K
    ELSE HStackBlocks(HStack(K, blocks[keys[1]]), Tail(keys), blocks)

\* lines 124-126: the group-type each column of K belongs to
RECURSIVE ColumnTypes(_, _, _)
ColumnTypes(types, keys, g) ==
    IF keys = <<>> THEN types
    ELSE ColumnTypes(types \o [j \in 1..Cols(g.val[keys[1]]) |-> keys[1]],
                     Tail(keys), g)

\* lines 137-141: the blocks of one row, in the order of `blocks`
RECURSIVE RowBlocks(_, _, _, _, _, _)
RowBlocks(row, keys, blocks, t, Gt, lambda) ==
    IF keys = <<>> THEN row
    ELSE LET b == MatMul(Transpose(Gt), blocks[keys[1]])
             blk == IF keys[1] = t
                    THEN MatAdd(b, Scale(lambda, Eye(Cols(Gt))))
                    ELSE b
         IN  RowBlocks(HStack(row, blk), Tail(keys), blocks, t, Gt, lambda)

\* lines 130-145: one row block and one right-hand-side block per key of
\* reg_coeff other than "individual", in reg_coeff's order
RECURSIVE AddRows(_, _, _, _, _, _)
AddRows(sys, rkeys, L, g, reg, k_diff) ==
    IF rkeys = <<>> THEN sys
    ELSE IF rkeys[1] = Individual
    THEN AddRows(sys, Tail(rkeys), L, g, reg, k_diff)
    ELSE LET t == rkeys[1]
             Gt == g.val[t]
             current_row == RowBlocks(MatMul(Transpose(Gt), L), g.keys,
                                      Blocks(L, g), t, Gt, reg.val[t])
             d_i == MatVec(Transpose(Gt), k_diff)
         IN  AddRows([K |-> VStack(sys.K, current_row), d_hat |-> sys.d_hat \o d_i],
                     Tail(rkeys), L, g, reg, k_diff)

\* lines 124 and 133: a dict lookup of an absent key raises KeyError
BuildError(g, reg) ==
    IF Individual \notin Range(reg.keys) THEN "KeyError"
    ELSE IF \E t \in Range(reg.keys) \ {Individual} : t \notin Range(g.keys)
    THEN "KeyError"
    ELSE None

\* lines 105-145: the matrix K and the vector d_hat
GroupSystem(M, g, reg) ==
    LET N == Rows(M)
        L == Laplacian(M)
        k_diff == VecSub(k_out(M), k_in(M))
        K0 == HStackBlocks(MatAdd(L, Scale(reg.val[Individual], Eye(N))),
                           g.keys, Blocks(L, g))
    IN  AddRows([K |-> K0, d_hat |-> k_diff], reg.keys, L, g, reg, k_diff)

\* faulty variant: an unrecognized solver falls to the least-squares solve
SelectSolverLsqrDefault(s) ==
    IF s = "spsolve" THEN "spsolve"
    ELSE IF s = "bicgstab" THEN "bicgstab"
    ELSE "lsqr"

\* lines 148-158: the if/elif chain over `solver`
SelectSolver(s) ==
    IF s = "spsolve" THEN "spsolve"
    ELSE IF s = "bicgstab" THEN "bicgstab"
    ELSE IF s = "lsqr" THEN "lsqr"
    ELSE "bicgstab"

\* the solver library: spsolve and bicgstab reject a matrix that is not
\* square; lsqr takes any shape and returns one entry per column
SolverRejects(method, K) == method \in {"spsolve", "bicgstab"} /\ Rows(K) # Cols(K)
Ramp(n) == [i \in 1..n |-> i]
RampDown(n) == [i \in 1..n |-> n + 1 - i]
SolverOutcomes(method, K) ==
    {[x |-> [num |-> v, den |-> 1], info |-> f] :
        <<v, f>> \in {Ramp(Cols(K)), RampDown(Cols(K))}
                     \X (IF method = "bicgstab" THEN {0, 1} ELSE {None})}

InitGroups ==
    /\ pc = "call"
    /\ \E N \in 1..MaxN :
        /\ A \in LoopFree(N)
        /\ G \in GroupDicts(N)
    /\ reg_coeff \in RegDicts
    /\ solver \in Solvers
    /\ alpha = None
    /\ operator = None /\ rhs = None /\ x = None /\ info = None /\ ret = None
    /\ err = None /\ calls = <<>>
    /\ args = None /\ sample = None /\ Z = None /\ net = None /\ draws = 0

\* lines 101-145, ended by a KeyError of line 124 or 133
GroupsBuildFails ==
    /\ pc = "call"
    /\ BuildError(G, reg_coeff) # None
    /\ err' = BuildError(G, reg_coeff)
    /\ pc' = "raised"
    /\ UNCHANGED <<A, alpha, operator, rhs, x, info, ret, calls, otherVars>>

\* lines 101-145
GroupsBuild ==
    /\ pc = "call"
    /\ BuildError(G, reg_coeff) = None
    /\ LET sys == GroupSystem(A, G, reg_coeff)
       IN  operator' = sys.K /\ rhs' = sys.d_hat
    /\ pc' = "built"
    /\ UNCHANGED <<A, alpha, x, info, ret, err, calls, otherVars>>

\* lines 148-158, the solver raising
GroupsSolveFails ==
    /\ pc = "built"
    /\ SolverRejects(SelectSolver(solver), operator)
    /\ calls' = Append(calls, SelectSolver(solver))
    /\ err' = "ValueError"
    /\ pc' = "raised"
    /\ UNCHANGED <<A, alpha, operator, rhs, x, info, ret, otherVars>>

\* lines 148-158
GroupsSolve ==
    /\ pc = "built"
    /\ ~SolverRejects(SelectSolver(solver), operator)
    /\ calls' = Append(calls, SelectSolver(solver))
    /\ \E o \in SolverOutcomes(SelectSolver(solver), operator) :
        /\ x' = o.x
        /\ info' = o.info
    /\ pc' = "solved"
    /\ UNCHANGED <<A, alpha, operator, rhs, ret, err, otherVars>>

\* faulty variant: the slices of x taken in reversed key order
RECURSIVE SliceScoresReversed(_, _, _, _)
SliceScoresReversed(v, keys, g, prev_idx) ==
    IF keys = <<>> THEN <<>>
    ELSE LET t == keys[Len(keys)]
             n_i == Cols(g.val[t])
         IN  SliceScoresReversed(v, SubSeq(keys, 1, Len(keys) - 1), g, prev_idx + n_i)
             \o <<SubSeq(v, prev_idx + 1, prev_idx + n_i)>>

\* lines 170-174: scores[group_type] = x[prev_idx:prev_idx + n_i], in the
\* order of num_groups (the order of G); the result lists one slice per key
RECURSIVE SliceScores(_, _, _, _)
SliceScores(v, keys, g, prev_idx) ==
    IF keys = <<>> THEN <<>>
    ELSE LET n_i == Cols(g.val[keys[1]])
         IN  <<SubSeq(v, prev_idx + 1, prev_idx + n_i)>>
             \o SliceScores(v, Tail(keys), g, prev_idx + n_i)

RECURSIVE AddGroupScores(_, _, _, _)
AddGroupScores(ranks, keys, g, slices) ==
    IF keys = <<>> THEN ranks
    ELSE AddGroupScores(VecAdd(ranks, MatVec(g.val[keys[1]], slices[1])),
                        Tail(keys), g, Tail(slices))

\* lines 166-176: scores and ranks
GroupsResult(v, g, N) ==
    LET slices == SliceScores(v, g.keys, g, N)
        byKey == [t \in Range(g.keys) |->
                    slices[CHOOSE i \in 1..Len(g.keys) : g.keys[i] = t]]
    IN  [ranks |-> AddGroupScores(SubSeq(v, 1, N), g.keys, g, slices),
         scores |-> [keys |-> <<Individual>> \o g.keys,
                     val |-> [t \in Range(g.keys) \cup {Individual} |->
                                IF t = Individual THEN SubSeq(v, 1, N) ELSE byKey[t]]]]

GroupsReturn ==
    /\ pc = "solved"
    /\ ret' = GroupsResult(x.num, G, Rows(A))
    /\ pc' = "done"
    /\ UNCHANGED <<A, alpha, operator, rhs, x, info, err, calls, otherVars>>

NextGroups ==
    GroupsBuildFails \/ GroupsBuild \/ GroupsSolveFails \/ GroupsSolve \/ GroupsReturn

SpecGroups == InitGroups /\ [][NextGroups]_vars

\* --------- SpringRank_planted_network, SpringRank_planted_network_groups
SamplerSizes == {1, 2}      \* N
BetaVals == {0 - 1, 1}
AlphaVals == {0 - 1, 0, 1}
Degrees == {1, 2}           \* K
RankVals == {0, 1}          \* the values a normal draw takes
\* the one value standing for inf and nan; no finite value of the model is it
NaN == 0 - 9999
L1 == 1

\* np.exp(-beta * 0.5 * d * d), times 100 and rounded: entry h + 10 of
\* the table is round(100 * exp(-h / 2)) for h = beta * d * d in -9..9
ExpTable ==
    <<9002, 5460, 3312, 2009, 1218, 739, 448, 272, 165, 100,
      61, 37, 22, 14, 8, 5, 3, 2, 1>>
ScaledEnergy(r, i, j, beta, l1) ==
    LET d == r[i] - r[j] - l1
    IN  ExpTable[beta * d * d + 10]

\* 1/np.sqrt(alpha*beta) is a positive real only when alpha*beta > 0: it is
\* inf for a zero product and nan for a negative one, and every rank drawn
\* with it, every energy and Z are then not finite
FiniteScale(a, beta) == a * beta > 0

PlantedArgs ==
    [fn : {"planted"}, N : SamplerSizes, beta : BetaVals, alpha : AlphaVals,
     K : Degrees]
NumGroupDicts ==
    {[keys |-> ks, val |-> [t \in Range(ks) |-> n]] :
        <<ks, n>> \in {<<>>, <<"a">>} \X GroupCounts}
AlphaDicts(ng) == [Range(ng.keys) \cup {Individual} -> AlphaVals]
GroupsArgs ==
    UNION {[fn : {"groups"}, N : SamplerSizes, num_groups : {ng}, beta : BetaVals,
            alpha : AlphaDicts(ng), K : Degrees, l1 : {L1},
            allow_self_loops : BOOLEAN] : ng \in NumGroupDicts}

NaNs(n) == [i \in 1..n |-> NaN]
NormalDraws(n, a, beta) ==
    IF FiniteScale(a, beta) THEN [1..n -> RankVals] ELSE {NaNs(n)}

\* lines 204-211 and 286-292: Z sums the scaled energy of every (i, j)
SumEnergies(r, N, beta, l1) ==
    SumSeq([i \in 1..N |-> SumSeq([j \in 1..N |-> ScaledEnergy(r, i, j, beta, l1)])])
Normalizer(r, N, beta, l1) ==
    IF NaN \in Range(r) THEN NaN ELSE SumEnergies(r, N, beta, l1)

\* lines 215-219: the pairs a Poisson draw is made for
PlantedCells(N) == {c \in (1..N) \X (1..N) : ~(c[1] = c[2])}

\* faulty variant: the self-loop guard dropped
GroupsCellsAll(N, allow) == (1..N) \X (1..N)

\* lines 300-306: the pairs a Poisson draw is made for
GroupsCells(N, allow) == {c \in (1..N) \X (1..N) : ~(c[1] = c[2] /\ ~allow)}

\* np.random.poisson(lam): any count for a finite lam > 0
PoissonDraws(cells) == [cells -> 0..MaxDraw]

InitGen ==
    /\ pc = "call"
    /\ args \in PlantedArgs \cup GroupsArgs
    /\ sample = None /\ Z = None /\ net = None /\ draws = 0
    /\ ret = None /\ err = None
    /\ A = None /\ alpha = None /\ operator = None /\ rhs = None /\ x = None
    /\ info = None /\ calls = <<>>
    /\ G = None /\ reg_coeff = None /\ solver = None

notGen == <<A, alpha, operator, rhs, x, info, calls, G, reg_coeff, solver>>

\* lines 201-202
PlantedRanks ==
    /\ pc = "call" /\ args.fn = "planted"
    /\ \E r \in NormalDraws(args.N, args.alpha, args.beta) :
        sample' = [ranks |-> r]
    /\ draws' = draws + 1
    /\ pc' = "ranked"
    /\ UNCHANGED <<args, Z, net, ret, err, notGen>>

\* lines 204-212: c = K*N / Z
PlantedNormalize ==
    /\ pc = "ranked" /\ args.fn = "planted"
    /\ Z' = Normalizer(sample.ranks, args.N, args.beta, 1)
    /\ pc' = "normalized"
    /\ UNCHANGED <<args, sample, net, draws, ret, err, notGen>>

\* lines 214-219 with a finite c
PlantedNetwork ==
    /\ pc = "normalized" /\ args.fn = "planted" /\ Z # NaN
    /\ \E d \in PoissonDraws(PlantedCells(args.N)) :
        net' = [i \in 1..args.N |-> [j \in 1..args.N |->
                    IF <<i, j>> \in PlantedCells(args.N) THEN d[<<i, j>>] ELSE 0]]
    /\ draws' = draws + Cardinality(PlantedCells(args.N))
    /\ pc' = "drawn"
    /\ UNCHANGED <<args, sample, Z, ret, err, notGen>>

\* lines 214-219 with c not finite: np.random.poisson(nan) raises ValueError
\* (numpy 1.17 and later) or returns 0 (earlier); without a pair to draw for
\* the loop ends with the zero matrix
PlantedNetworkNaN ==
    /\ pc = "normalized" /\ args.fn = "planted" /\ Z = NaN
    /\ \/ /\ PlantedCells(args.N) # {}
          /\ err' = "ValueError" /\ pc' = "raised"
          /\ draws' = draws + 1
          /\ UNCHANGED net
       \/ /\ net' = [i \in 1..args.N |-> [j \in 1..args.N |-> 0]]
          /\ draws' = draws + Cardinality(PlantedCells(args.N))
          /\ pc' = "drawn"
          /\ UNCHANGED err
    /\ UNCHANGED <<args, sample, Z, ret, notGen>>

\* lines 221-224
PlantedReturn ==
    /\ pc = "drawn" /\ args.fn = "planted"
    /\ \E return_ranks \in BOOLEAN :
        ret' = IF return_ranks THEN [A |-> net, ranks |-> sample.ranks]
               ELSE [A |-> net]
    /\ pc' = "done"
    /\ UNCHANGED <<args, sample, Z, net, draws, err, notGen>>

\* lines 271-275: groups_i = randint(0, n_i, N) as an indicator matrix
Indicator(N, n, grp) == [j \in 1..N |-> [g \in 1..n |-> IF grp[j] = g THEN 1 ELSE 0]]
\* line 283: an entry of G_i @ scores is not finite when a score is not
AddScores(r, Gi, sc) ==
    IF NaN \in Range(r) \cup Range(sc) THEN NaNs(Len(r)) ELSE VecAdd(r, MatVec(Gi, sc))
RECURSIVE SumGroupScores(_, _, _, _)
SumGroupScores(r, keys, Gs, sc) ==
    IF keys = <<>> THEN r
    ELSE SumGroupScores(AddScores(r, Gs[keys[1]], sc[keys[1]]), Tail(keys), Gs, sc)

\* lines 256-283
GroupsScores ==
    /\ pc = "call" /\ args.fn = "groups"
    /\ LET ng == args.num_groups
           types == Range(ng.keys)
       IN  \E ind \in NormalDraws(args.N, args.alpha[Individual], args.beta) :
           \E grp \in [types -> UNION {[1..args.N -> 1..n] : n \in GroupCounts}] :
           \E sc \in [types -> UNION {[1..n -> RankVals] \cup {NaNs(n)} : n \in GroupCounts}] :
              /\ \A t \in types :
                    /\ grp[t] \in [1..args.N -> 1..ng.val[t]]
                    /\ sc[t] \in NormalDraws(ng.val[t], args.alpha[t], args.beta)
              /\ LET Gs == [t \in types |-> Indicator(args.N, ng.val[t], grp[t])]
                     scores == [t \in types \cup {Individual} |->
                                    IF t = Individual THEN ind ELSE sc[t]]
                 IN  sample' = [G |-> [keys |-> ng.keys, val |-> Gs],
                                scores |-> [keys |-> <<Individual>> \o ng.keys,
                                            val |-> scores],
                                ranks |-> SumGroupScores(ind, ng.keys, Gs, sc)]
              /\ draws' = draws + 1 + 2 * Len(ng.keys)
    /\ pc' = "ranked"
    /\ UNCHANGED <<args, Z, net, ret, err, notGen>>

\* lines 285-293: c = K*N / Z
GroupsNormalize ==
    /\ pc = "ranked" /\ args.fn = "groups"
    /\ Z' = Normalizer(sample.ranks, args.N, args.beta, args.l1)
    /\ pc' = "normalized"
    /\ UNCHANGED <<args, sample, net, draws, ret, err, notGen>>

\* lines 296-308: a DiGraph with a node per i and an edge per positive draw
Graph(r, cells, d) ==
    [score |-> r,
     edges |-> {<<c[1], c[2], d[c]>> : c \in {c \in cells : d[c] > 0}}]

\* lines 295-308 with a finite c
GroupsNetwork ==
    /\ pc = "normalized" /\ args.fn = "groups" /\ Z # NaN
    /\ LET cells == GroupsCells(args.N, args.allow_self_loops)
       IN  /\ \E d \in PoissonDraws(cells) : net' = Graph(sample.ranks, cells, d)
           /\ draws' = draws + Cardinality(cells)
    /\ pc' = "drawn"
    /\ UNCHANGED <<args, sample, Z, ret, err, notGen>>

\* lines 295-308 with c not finite (see PlantedNetworkNaN)
GroupsNetworkNaN ==
    /\ pc = "normalized" /\ args.fn = "groups" /\ Z = NaN
    /\ LET cells == GroupsCells(args.N, args.allow_self_loops)
       IN  \/ /\ cells # {}
              /\ err' = "ValueError" /\ pc' = "raised"
              /\ draws' = draws + 1
              /\ UNCHANGED net
           \/ /\ net' = Graph(sample.ranks, cells, [c \in cells |-> 0])
              /\ draws' = draws + Cardinality(cells)
              /\ pc' = "drawn"
              /\ UNCHANGED err
    /\ UNCHANGED <<args, sample, Z, ret, notGen>>

\* lines 310-313
GroupsGenReturn ==
    /\ pc = "drawn" /\ args.fn = "groups"
    /\ \E return_ranks \in BOOLEAN :
        ret' = IF return_ranks
               THEN [A |-> net, G |-> sample.G, scores |-> sample.scores,
                     ranks |-> sample.ranks]
               ELSE [A |-> net, G |-> sample.G]
    /\ pc' = "done"
    /\ UNCHANGED <<args, sample, Z, net, draws, err, notGen>>

NextGen ==
    \/ PlantedRanks \/ PlantedNormalize \/ PlantedNetwork \/ PlantedNetworkNaN
    \/ PlantedReturn
    \/ GroupsScores \/ GroupsNormalize \/ GroupsNetwork \/ GroupsNetworkNaN
    \/ GroupsGenReturn

SpecGen == InitGen /\ [][NextGen]_vars

\* ------------------------------------------------------- claims, SpecRank
Built == pc \in {"built", "solved", "done"}
NodeSet == 1..Len(A)
InDeg(j) == SumSeq([i \in 1..Len(A) |-> A[i][j]])
OutDeg(i) == SumSeq([j \in 1..Len(A) |-> A[i][j]])
\* L = diag(k_in + k_out) - A - A^T, entry by entry
LEntry(i, j) == (IF i = j THEN InDeg(i) + OutDeg(i) ELSE 0) - A[i][j] - A[j][i]
LTimes(v) == [i \in 1..Len(A) |-> SumSeq([j \in 1..Len(A) |-> LEntry(i, j) * v[j]])]
DegDiff == [i \in 1..Len(A) |-> OutDeg(i) - InDeg(i)]

LMatrix == [i \in 1..Len(A) |-> [j \in 1..Len(A) |-> LEntry(i, j)]]

\* C1: in the L2-regularized mode (alpha > 0) the system handed to the solver
\* has operator alpha*I + L and right-hand side exactly k_out - k_in, with no
\* alpha term added.
C1_L2SystemAsSpecified ==
    (Built /\ alpha > 0) =>
        /\ \A i \in NodeSet : \A j \in NodeSet :
              operator[i][j] = (IF i = j THEN alpha ELSE 0) + LEntry(i, j)
        /\ \A i \in NodeSet : rhs[i] = OutDeg(i) - InDeg(i)

\* C3: a bicgstab solve that ends without convergence (info # 0) reaches the
\* caller with a convergence-failure signal beside the iterate.
Signalled(r) == "info" \in DOMAIN r /\ r.info # 0
C3_NonConvergenceSignalled ==
    (pc = "done" /\ info # 0) => Signalled(ret)

\* C7: for alpha = 0 the augmented (N+1)x(N+1) system has top-left block L, a
\* single 1 at (N,0) and (0,N) and right-hand side [k_out - k_in; 0]; every
\* exact solution (x, mu) has x[0] = 0 and mu = 0, and the returned first N
\* entries of a converged solve satisfy L*ranks = k_out - k_in.
C7_LagrangeSystem ==
    (Built /\ alpha = 0) =>
        LET N == Len(A)
        IN  /\ Rows(operator) = N + 1 /\ Cols(operator) = N + 1
            /\ \A i \in NodeSet : \A j \in NodeSet : operator[i][j] = LEntry(i, j)
            /\ \A i \in 1..(N + 1) :
                  /\ operator[N + 1][i] = (IF i = 1 THEN 1 ELSE 0)
                  /\ operator[i][N + 1] = (IF i = 1 THEN 1 ELSE 0)
            /\ rhs = DegDiff \o <<0>>
            /\ pc = "built" =>
                  \A c \in Box(N + 1) : \A q \in 1..MaxQ :
                      (\A i \in 1..(N + 1) : Dot(operator[i], c) = q * rhs[i]) =>
                          /\ c[1] = 0
                          /\ c[N + 1] = 0
                          /\ LTimes(SubSeq(c, 1, N)) = VecScale(q, DegDiff)
            /\ (pc = "done" /\ info = 0) =>
                  /\ Len(ret.ranks.num) = N
                  /\ LTimes(ret.ranks.num) = VecScale(ret.ranks.den, DegDiff)

C7_Witness ==
    /\ pc = "done" /\ alpha = 0 /\ info = 0
    /\ Len(A) = MaxN
    /\ \E i \in NodeSet : ret.ranks.num[i] # 0

\* ----------------------------------------------------- claims, SpecGroups
RequiredKeys == Range(G.keys) \cup {Individual}
RegKeys == Range(reg_coeff.keys)
GroupN == Rows(A)
TotalSize == GroupN + SumSeq([i \in 1..Len(G.keys) |-> Cols(G.val[G.keys[i]])])
KColumnTypes == ColumnTypes([i \in 1..GroupN |-> Individual], G.keys, G)
ColumnsIn(ct, t) == {j \in 1..Len(ct) : ct[j] = t}
\* the entries of v at the positions in S, in increasing order
RECURSIVE Pick(_, _)
Pick(v, S) ==
    IF S = {} THEN <<>>
    ELSE LET m == CHOOSE j \in S : \A k \in S : j <= k
         IN  <<v[m]>> \o Pick(v, S \ {m})
\* (G_t^T L G_s)[p][q] for the unaugmented Laplacian L of A
GLG(t, s, p, q) ==
    SumSeq([i \in 1..GroupN |->
        SumSeq([j \in 1..GroupN |-> G.val[t][i][p] * LEntry(i, j) * G.val[s][j][q]])])

\* C4: when reg_coeff lacks "individual" or a key of G, the call fails with
\* a configuration error before any solver is invoked and returns nothing.
C4_MissingKeyRejectedBeforeSolve ==
    ~(RequiredKeys \subseteq RegKeys) =>
        /\ calls = <<>>
        /\ ret = None
        /\ pc = "raised" => err = "KeyError"

\* C8: for a valid input the scores mapping has exactly the keys of G plus
\* "individual"; scores["individual"] is the first N entries of x, scores[t]
\* the entries of x at the columns of t's block in K, and
\* ranks = scores["individual"] + sum over t of G_t * scores[t].
C8_ScoresDecomposition ==
    (pc = "done" /\ RegKeys = RequiredKeys) =>
        LET ct == KColumnTypes
            L == LMatrix
        IN  /\ Len(x.num) = Cols(operator)
            /\ Len(ct) = Cols(operator)
            /\ Range(ret.scores.keys) = RequiredKeys
            /\ DOMAIN ret.scores.val = RequiredKeys
            /\ ret.scores.val[Individual] = SubSeq(x.num, 1, GroupN)
            /\ \A t \in Range(G.keys) :
                  LET cols == ColumnsIn(ct, t)
                  IN  /\ Cardinality(cols) = Cols(G.val[t])
                      /\ ret.scores.val[t] = Pick(x.num, cols)
                      /\ \A i \in 1..GroupN :
                            Pick(operator[i], cols) =
                                [q \in 1..Cols(G.val[t]) |->
                                    SumSeq([j \in 1..GroupN |-> L[i][j] * G.val[t][j][q]])]
            /\ \A i \in 1..GroupN :
                  ret.ranks[i] = ret.scores.val[Individual][i]
                      + SumSeq([k \in 1..Len(G.keys) |->
                            Dot(G.val[G.keys[k]][i], ret.scores.val[G.keys[k]])])

C8_Witness ==
    /\ pc = "done" /\ RegKeys = RequiredKeys
    /\ G.keys = <<"b", "a">>
    /\ Cols(G.val["a"]) # Cols(G.val["b"])
    /\ reg_coeff.keys = <<"a", Individual, "b">>
    /\ GroupN = MaxN

\* C9: one solver per call, chosen by the solver argument alone: 'spsolve'
\* the direct solve, 'lsqr' the least-squares solve, anything else the
\* iterative solve; never a second solve after the first returned or failed.
ExpectedMethod ==
    CASE solver = "spsolve" -> "spsolve"
      [] solver = "lsqr" -> "lsqr"
      [] OTHER -> "bicgstab"
C10_KSymmetric ==
    (pc = "built" /\ RegKeys = RequiredKeys) =>
        /\ Rows(operator) = TotalSize /\ Cols(operator) = TotalSize
        /\ \A i \in 1..TotalSize : \A j \in 1..TotalSize :
              operator[i][j] = operator[j][i]
        /\ \A t \in Range(G.keys) :
              LET cs == Pick([j \in 1..TotalSize |-> j], ColumnsIn(KColumnTypes, t))
              IN  \A p \in 1..Len(cs) : \A q \in 1..Len(cs) :
                    operator[cs[p]][cs[q]] =
                        GLG(t, t, p, q) + (IF p = q THEN reg_coeff.val[t] ELSE 0)

\* the same statement for a reg_coeff that lists the group keys in G's order
SameOrder ==
    SelectSeq(reg_coeff.keys, LAMBDA k : k # Individual) = G.keys
KSymmetricInOrder == SameOrder => C10_KSymmetric

\* -------------------------------------------------------- claims, SpecGen
Normalized == pc \in {"normalized", "drawn", "done"}
DrawnCells ==
    IF args.fn = "planted" THEN PlantedCells(args.N)
    ELSE GroupsCells(args.N, args.allow_self_loops)
RestLength == IF args.fn = "planted" THEN 1 ELSE args.l1
RECURSIVE SumOver(_, _)
SumOver(S, f) ==
    IF S = {} THEN 0
    ELSE LET c == CHOOSE c \in S : TRUE
         IN  f[c] + SumOver(S \ {c}, f)
\* the Poisson means c*w_ij = (K*N*w_ij)/Z summed over the pairs drawn for, as
\* a fraction with denominator Z
ExpectedEdgesNum ==
    args.K * args.N *
        SumOver(DrawnCells,
                [c \in DrawnCells |->
                    ScaledEnergy(sample.ranks, c[1], c[2], args.beta, RestLength)])

InvalidArgs ==
    \/ args.beta <= 0
    \/ IF args.fn = "planted" THEN args.alpha <= 0
       ELSE \E t \in DOMAIN args.alpha : args.alpha[t] <= 0

\* C2: in both samplers, for valid arguments, the Poisson means c*w_ij summed
\* over exactly the ordered pairs a draw is made for total K*N.
C2_ExpectedEdgesKN ==
    (Normalized /\ ~InvalidArgs /\ DrawnCells # {}) =>
        ExpectedEdgesNum = args.K * args.N * Z

\* the same statement where every pair is drawn for (self-loops allowed)
ExpectedEdgesKNWithLoops ==
    (Normalized /\ ~InvalidArgs /\ args.fn = "groups" /\ args.allow_self_loops) =>
        ExpectedEdgesNum = args.K * args.N * Z

\* C5: with beta <= 0 or an alpha <= 0 the samplers reject the call with a
\* configuration error before any random draw, and return no network.
C5_InvalidArgsRejected ==
    InvalidArgs =>
        /\ draws = 0
        /\ ret = None
        /\ pc \in {"call", "raised"}

\* C6: with self-loops not allowed no realized network has an edge (i,i):
\* the graph of SpringRank_planted_network_groups(allow_self_loops=False)
\* has none and the matrix of SpringRank_planted_network has a zero diagonal.
C6_NoSelfLoops ==
    pc \in {"drawn", "done"} =>
        LET out == IF pc = "done" THEN ret.A ELSE net
        IN  IF args.fn = "planted"
            THEN \A i \in 1..args.N : out[i][i] = 0
            ELSE ~args.allow_self_loops => \A e \in out.edges : e[1] # e[2]

C6_Witness ==
    /\ pc = "done" /\ args.fn = "groups" /\ ~args.allow_self_loops
    /\ args.N = 2
    /\ Cardinality(ret.A.edges) = 2

====
